---- MODULE Spec2Model ----
(***************************************************************************)
(* Model of scripts/pulse_viz_generator.py: FinancialColors,                *)
(* DataProcessor.normalize, PathSimplifier.simplify / _perp_dist,          *)
(* CatmullRomSpline.interpolate, SVGPathGenerator, the pipeline           *)
(* NetWorthViz.generate that runs them in sequence, and the choice of      *)
(* the color in main.                                                      *)
(*                                                                         *)
(* Real numbers are exact rationals [n, d] (d > 0, lowest terms); a        *)
(* perpendicular distance num / sqrt(densq) is kept as the pair            *)
(* [num, densq] and compared by squaring, so no square root is rounded.    *)
(* On the integer inputs of the model Python's floats take the same        *)
(* decisions.  Where a statement is about floats comparing equal, the      *)
(* function is modelled a second time in binary64 (InterpolateF,           *)
(* SimplifyF, NormalizeF).                                                 *)
(* Sequences are 1-based: Python points[i] is points[i + 1] here.          *)
(***************************************************************************)
EXTENDS Integers, Sequences, FiniteSets, TLC

VARIABLES pc, points, tolerance, segments, data, width, height, padding,
          baseline, value, benchmark, color, palette, smooth, calls, stack,
          out, kept, again, raised

\* what the call under way reads besides the polyline: its other arguments
\* and the class attributes of FinancialColors; no operation assigns to them
\* once the call is made
args == <<tolerance, segments, data, width, height, padding, baseline,
          value, benchmark, color, palette>>

\* points is an argument of the Simplifier, the Interpolator and the
\* Encoder, and a local variable of NetWorthViz.generate
inputs == <<points, args>>

\* the other local variable of NetWorthViz.generate, the number of calls of
\* it made so far, and the calls of simplify that are still to be run
locals == <<smooth, calls, stack>>

vars == <<pc, inputs, locals, out, kept, again, raised>>

(***************************************************************************)
(* Bounds of the model.                                                    *)
(***************************************************************************)
MaxLen == 4
MaxCoord == 2
MaxCtl == 3
MaxSeg == 4
MaxCtlF == 2
MaxData == 4
MaxVal == 2
MaxAmount == 120
MaxSeries == 3
MaxFlat == 9
MaxLenS == 4
MaxCoordS == 1

(***************************************************************************)
(* Exact rational arithmetic.                                              *)
(***************************************************************************)
Abs(i) == IF i < 0 THEN -i ELSE i

RECURSIVE Gcd(_, _)
Gcd(a, b) == IF b = 0 THEN a ELSE Gcd(b, a % b)

Rat(n, d) ==
    LET g == Gcd(Abs(n), Abs(d))
        s == IF d < 0 THEN -1 ELSE 1
    IN  [n |-> s * (n \div g), d |-> s * (d \div g)]

Int2Rat(i) == [n |-> i, d |-> 1]

RAdd(a, b) ==
    IF a.d = b.d THEN Rat(a.n + b.n, a.d)
    ELSE LET g == Gcd(a.d, b.d)
         IN  Rat(a.n * (b.d \div g) + b.n * (a.d \div g), (a.d \div g) * b.d)

RNeg(a) == [n |-> -a.n, d |-> a.d]

RSub(a, b) == RAdd(a, RNeg(b))

RMul(a, b) ==
    IF a.n = 0 \/ b.n = 0 THEN [n |-> 0, d |-> 1]
    ELSE LET g1 == Gcd(Abs(a.n), b.d)
             g2 == Gcd(Abs(b.n), a.d)
         IN  Rat((a.n \div g1) * (b.n \div g2), (a.d \div g2) * (b.d \div g1))

RDiv(a, b) == RMul(a, Rat(b.d, b.n))

RLt(a, b) == a.n * b.d < b.n * a.d

RLe(a, b) == a.n * b.d <= b.n * a.d

RAbs(a) == [n |-> Abs(a.n), d |-> a.d]

Zero == Int2Rat(0)

(***************************************************************************)
(* PathSimplifier                                                          *)
(***************************************************************************)

\* _perp_dist giving, for a zero-length chord, the distance of p from the
\* point p1
PerpDistZ(p, p1, p2) ==
    LET num == RAbs(RSub(RAdd(RSub(RMul(RSub(p2[2], p1[2]), p[1]),
                                   RMul(RSub(p2[1], p1[1]), p[2])),
                              RMul(p2[1], p1[2])),
                         RMul(p2[2], p1[1])))
        dy == RSub(p2[2], p1[2])
        dx == RSub(p2[1], p1[1])
        densq == RAdd(RMul(dy, dy), RMul(dx, dx))
        away == RAdd(RMul(RSub(p[1], p1[1]), RSub(p[1], p1[1])),
                     RMul(RSub(p[2], p1[2]), RSub(p[2], p1[2])))
    IN  IF densq # Zero THEN [num |-> num, densq |-> densq]
        ELSE IF away # Zero THEN [num |-> away, densq |-> away]
        ELSE [num |-> Zero, densq |-> Int2Rat(1)]

\* _perp_dist with the sign of the second product flipped
PerpDistM(p, p1, p2) ==
    LET num == RAbs(RSub(RAdd(RAdd(RMul(RSub(p2[2], p1[2]), p[1]),
                                   RMul(RSub(p2[1], p1[1]), p[2])),
                              RMul(p2[1], p1[2])),
                         RMul(p2[2], p1[1])))
        dy == RSub(p2[2], p1[2])
        dx == RSub(p2[1], p1[1])
        densq == RAdd(RMul(dy, dy), RMul(dx, dx))
    IN  IF densq # Zero THEN [num |-> num, densq |-> densq]
        ELSE [num |-> Zero, densq |-> Int2Rat(1)]

\* The distance num/den of _perp_dist with den = sqrt(densq); the guard
\* "if den != 0 else 0" gives the zero distance for a zero-length chord.
PerpDist(p, p1, p2) ==
    LET num == RAbs(RSub(RAdd(RSub(RMul(RSub(p2[2], p1[2]), p[1]),
                                   RMul(RSub(p2[1], p1[1]), p[2])),
                              RMul(p2[1], p1[2])),
                         RMul(p2[2], p1[1])))
        dy == RSub(p2[2], p1[2])
        dx == RSub(p2[1], p1[1])
        densq == RAdd(RMul(dy, dy), RMul(dx, dx))
    IN  IF densq # Zero THEN [num |-> num, densq |-> densq]
        ELSE [num |-> Zero, densq |-> Int2Rat(1)]

\* d > e for two distances
DistGt(d, e) ==
    RLt(RMul(RMul(e.num, e.num), d.densq), RMul(RMul(d.num, d.num), e.densq))

\* d > t for a distance and a rational t >= 0
DistGtRat(d, t) == RLt(RMul(RMul(t, t), d.densq), RMul(d.num, d.num))

ZeroDist == [num |-> Zero, densq |-> Int2Rat(1)]

\* dmax = 0, index = 0 before the loop
NoneFarther == [dmax |-> ZeroDist, index |-> 1]

\* The loop of simplify over the positions lo .. hi, as (dmax, index): the
\* first position whose distance is the greatest, if that is above 0.
RECURSIVE Scan(_, _, _)
Scan(pts, lo, hi) ==
    IF lo > hi THEN NoneFarther
    ELSE IF lo = hi
    THEN LET d == PerpDist(pts[lo], pts[1], pts[Len(pts)])
         IN  IF DistGt(d, ZeroDist) THEN [dmax |-> d, index |-> lo] ELSE NoneFarther
    ELSE LET mid == (lo + hi) \div 2
             l == Scan(pts, lo, mid)
             r == Scan(pts, mid + 1, hi)
         IN  IF l.index = r.index THEN NoneFarther
             ELSE IF DistGt(r.dmax, l.dmax) THEN r ELSE l

\* the loop started one position late
FarthestM(pts) == Scan(pts, 3, Len(pts) - 1)

Farthest(pts) == Scan(pts, 2, Len(pts) - 1)

\* the slice [:-1] left out
FrontM(s) == s

\* s[:-1]
Front(s) == SubSeq(s, 1, Len(s) - 1)

RECURSIVE Simplify(_, _)
Simplify(pts, tol) ==
    IF Len(pts) < 3 THEN pts
    ELSE LET f == Farthest(pts)
         IN  IF DistGtRat(f.dmax, tol)
             THEN Front(Simplify(SubSeq(pts, 1, f.index), tol))
                  \o Simplify(SubSeq(pts, f.index, Len(pts)), tol)
             ELSE <<pts[1], pts[Len(pts)]>>

\* A polyline whose points carry their input position as a third component
\* (the identity of the Python tuple objects); simplify reads only p[0], p[1].
Tagged(pts) == [i \in DOMAIN pts |-> <<pts[i][1], pts[i][2], i>>]

Positions(tpts) == [i \in DOMAIN tpts |-> tpts[i][3]]

(***************************************************************************)
(* Inputs                                                                  *)
(***************************************************************************)
Coords == 0..MaxCoord

GridPoints == {<<Int2Rat(x), Int2Rat(y)>> : x \in Coords, y \in Coords}

SeqsUpTo(S, n) == UNION {[1..k -> S] : k \in 0..n}

Tolerances == {Int2Rat(0), Rat(1, 2), Int2Rat(1), Int2Rat(2)}

(***************************************************************************)
(* FinancialColors                                                         *)
(***************************************************************************)
EMERALD_STRONG == "hsl(145, 67%, 42%)"
TEAL_MILD == "hsl(165, 55%, 48%)"
SLATE_NEUTRAL == "hsl(220, 15%, 55%)"
AMBER_CAUTION == "hsl(38, 65%, 52%)"
CRIMSON_WARNING == "hsl(0, 72%, 42%)"

\* the class as the module leaves it once it is loaded
FinancialColors ==
    [EMERALD_STRONG |-> EMERALD_STRONG, TEAL_MILD |-> TEAL_MILD,
     SLATE_NEUTRAL |-> SLATE_NEUTRAL, AMBER_CAUTION |-> AMBER_CAUTION,
     CRIMSON_WARNING |-> CRIMSON_WARNING]

\* the calls of the Simplifier and the Interpolator take no data and no frame
NoFrame ==
    /\ data = <<>>
    /\ width = Zero
    /\ height = Zero
    /\ padding = Zero
    /\ baseline = 0

\* no call of contextual_color and none of NetWorthViz.generate
NoGenerate ==
    /\ value = 0
    /\ benchmark = 0
    /\ color = ""
    /\ smooth = <<>>
    /\ calls = 0
    /\ stack = <<>>

(***************************************************************************)
(* Simplifier runs: simplify(points, tolerance), then simplify again on    *)
(* its own output.                                                         *)
(***************************************************************************)
InitSimplify ==
    /\ pc = "ready"
    /\ NoGenerate
    /\ palette = FinancialColors
    /\ points \in SeqsUpTo(GridPoints, MaxLen)
    /\ tolerance \in Tolerances
    /\ segments = 0
    /\ NoFrame
    /\ out = <<>>
    /\ kept = <<>>
    /\ again = <<>>
    /\ raised = "none"

\* simplify as it would be if it wrote its result back into its argument
\* (points[:] = ...)
DoSimplifyW ==
    /\ pc = "ready"
    /\ out' = Simplify(points, tolerance)
    /\ kept' = Positions(Simplify(Tagged(points), tolerance))
    /\ points' = Simplify(points, tolerance)
    /\ pc' = "simplified"
    /\ UNCHANGED <<args, locals, raised, again>>

DoSimplify ==
    /\ pc = "ready"
    /\ out' = Simplify(points, tolerance)
    /\ kept' = Positions(Simplify(Tagged(points), tolerance))
    /\ pc' = "simplified"
    /\ UNCHANGED <<inputs, locals, raised, again>>

DoSimplifyAgain ==
    /\ pc = "simplified"
    /\ again' = Simplify(out, tolerance)
    /\ pc' = "resimplified"
    /\ UNCHANGED <<inputs, locals, raised, out, kept>>

NextSimplify == DoSimplify \/ DoSimplifyAgain

SpecSimplify == InitSimplify /\ [][NextSimplify]_vars

(***************************************************************************)
(* Properties of the Simplifier                                            *)
(***************************************************************************)
Simplified == pc \in {"simplified", "resimplified"}

StrictlyIncreasing(s) == \A i \in 1..(Len(s) - 1) : s[i] < s[i + 1]

\* C1: simplify returns a subsequence of its input by position (retained
\* points are input points, in input order, each position used at most
\* once), and for a non-empty input the first and the last output point are
\* the first and the last input point.
C1_Subsequence ==
    Simplified =>
        /\ Len(kept) = Len(out)
        /\ \A i \in DOMAIN kept : kept[i] \in DOMAIN points /\ out[i] = points[kept[i]]
        /\ StrictlyIncreasing(kept)
        /\ (Len(points) > 0 =>
               /\ Len(out) > 0
               /\ kept[1] = 1
               /\ kept[Len(kept)] = Len(points))

C1_Witness ==
    /\ pc = "simplified"
    /\ Len(points) = 4
    /\ kept = <<1, 3, 4>>

\* Geometry used by the statements: the cross product of (b - a) and (p - a),
\* and squared lengths.
Cross(p, a, b) ==
    RSub(RMul(RSub(b[1], a[1]), RSub(p[2], a[2])),
         RMul(RSub(b[2], a[2]), RSub(p[1], a[1])))

SqLen(a, b) ==
    RAdd(RMul(RSub(b[1], a[1]), RSub(b[1], a[1])),
         RMul(RSub(b[2], a[2]), RSub(b[2], a[2])))

\* the distance of p from the line through a and b (a # b) is at most t
WithinOfLine(p, a, b, t) ==
    RLe(RMul(Cross(p, a, b), Cross(p, a, b)), RMul(RMul(t, t), SqLen(a, b)))

\* the distance of p from the point a is at most t
WithinOfPoint(p, a, t) == RLe(SqLen(a, p), RMul(t, t))

SamePoint(a, b) == a[1] = b[1] /\ a[2] = b[2]

Retained == {kept[i] : i \in DOMAIN kept}

Discarded == DOMAIN points \ Retained

PrevKept(i) == CHOOSE a \in Retained : a < i /\ \A c \in Retained : c < i => c <= a

NextKept(i) == CHOOSE b \in Retained : b > i /\ \A c \in Retained : c > i => b <= c

\* C2 as stated: every discarded point lies within perpendicular distance
\* tolerance of the segment joining its nearest retained neighbours, also
\* when those neighbours coincide (the segment is then a single point).
C2_AsStated ==
    Simplified =>
        \A i \in Discarded :
            LET a == points[PrevKept(i)]
                b == points[NextKept(i)]
            IN  IF SamePoint(a, b)
                THEN WithinOfPoint(points[i], a, tolerance)
                ELSE WithinOfLine(points[i], a, b, tolerance)

\* C2 amended: every discarded point whose nearest retained neighbours are
\* two distinct points lies within perpendicular distance tolerance of the
\* line through them.
C2_WithinTolerance ==
    Simplified =>
        \A i \in Discarded :
            LET a == points[PrevKept(i)]
                b == points[NextKept(i)]
            IN  ~SamePoint(a, b) => WithinOfLine(points[i], a, b, tolerance)

C2_Witness ==
    /\ pc = "simplified"
    /\ tolerance = Int2Rat(1)
    /\ \E i \in Discarded :
          /\ ~SamePoint(points[PrevKept(i)], points[NextKept(i)])
          /\ ~WithinOfLine(points[i], points[PrevKept(i)], points[NextKept(i)], Zero)
    /\ Len(kept) = 3

\* C3: simplifying the output of simplify again with the same tolerance
\* returns that output.
C3_Idempotent == pc = "resimplified" => again = out

C3_Witness ==
    /\ pc = "resimplified"
    /\ Len(points) = 4
    /\ Len(out) = 3
    /\ again = out

(***************************************************************************)
(* CatmullRomSpline                                                        *)
(***************************************************************************)
Half == Rat(1, 2)

\* i * a for an integer i
RScale(i, a) == RMul(Int2Rat(i), a)

\* the two-point branch with range(segments + 1) taken as the divisor
LerpM(pts, segs, i) ==
    <<RAdd(pts[1][1], RDiv(RScale(i, RSub(pts[2][1], pts[1][1])), Int2Rat(segs + 1))),
      RAdd(pts[1][2], RDiv(RScale(i, RSub(pts[2][2], pts[1][2])), Int2Rat(segs + 1)))>>

\* the two-point branch: point i of range(segments + 1)
Lerp(pts, segs, i) ==
    <<RAdd(pts[1][1], RDiv(RScale(i, RSub(pts[2][1], pts[1][1])), Int2Rat(segs))),
      RAdd(pts[1][2], RDiv(RScale(i, RSub(pts[2][2], pts[1][2])), Int2Rat(segs)))>>

\* 0.5 * (2*b + (-a + c)*t + (2*a - 5*b + 4*c - d)*t2 + (-a + 3*e - 3*c + d)*t3);
\* e is the operand of the "3*" term of the cubic coefficient
Blend(a, b, c, d, e, t) ==
    LET t2 == RMul(t, t)
        t3 == RMul(RMul(t, t), t)
    IN  RMul(Half,
             RAdd(RAdd(RAdd(RScale(2, b),
                            RMul(RAdd(RNeg(a), c), t)),
                       RMul(RSub(RAdd(RSub(RScale(2, a), RScale(5, b)), RScale(4, c)), d), t2)),
                  RMul(RAdd(RSub(RAdd(RNeg(a), RScale(3, e)), RScale(3, c)), d), t3)))

\* the sample (x, y) of line 77 and 78: the x channel takes 3*p1[1], the y
\* coordinate of p1, in its cubic coefficient
Sample(p0, p1, p2, p3, t) ==
    <<Blend(p0[1], p1[1], p2[1], p3[1], p1[2], t),
      Blend(p0[2], p1[2], p2[2], p3[2], p1[2], t)>>

Padded(pts) == <<pts[1]>> \o pts \o <<pts[Len(pts)]>>

\* the samples taken at t = j / segments for j = 1 .. segments
SpanSamplesM(padded, i, segs) ==
    [j \in 1..segs |->
        Sample(padded[i], padded[i + 1], padded[i + 2], padded[i + 3],
               Rat(j, segs))]

\* the samples j = 0 .. segments - 1 of the span starting at padded[i]
SpanSamples(padded, i, segs) ==
    [j \in 1..segs |->
        Sample(padded[i], padded[i + 1], padded[i + 2], padded[i + 3],
               Rat(j - 1, segs))]

\* the samples of the spans i = 0 .. len(padded) - 4, span after span
Spans(padded, segs) ==
    [k \in 1..((Len(padded) - 3) * segs) |->
        SpanSamples(padded, ((k - 1) \div segs) + 1, segs)[((k - 1) % segs) + 1]]

Interpolate(pts, segs) ==
    IF Len(pts) < 2 THEN pts
    ELSE IF Len(pts) = 2 THEN [i \in 1..(segs + 1) |-> Lerp(pts, segs, i - 1)]
    ELSE Spans(Padded(pts), segs) \o <<pts[Len(pts)]>>

SwapXY(pts) == [i \in DOMAIN pts |-> <<pts[i][2], pts[i][1]>>]

(***************************************************************************)
(* Binary64 arithmetic.  Python's float is the IEEE 754 double: 53         *)
(* significant bits, every operation rounded to nearest, ties to even.  A  *)
(* double is [neg, bits]: its magnitude is the sum of 2^e over e in bits,  *)
(* so that magnitudes beyond the machine integers of the checker are       *)
(* handled exactly.  Exponent range (overflow, subnormals) is not modelled.*)
(***************************************************************************)
MantBits == 53

SetMax(S) == CHOOSE m \in S : \A e \in S : e <= m

Shift(S, k) == {e + k : e \in S}

Xor(S, T) == (S \ T) \cup (T \ S)

SetMin(S) == CHOOSE m \in S : \A e \in S : m <= e

\* positions that can hold a bit of S + T or S - T
Span(S, T) == IF S \cup T = {} THEN {} ELSE SetMin(S \cup T)..(SetMax(S \cup T) + 1)

\* S + T: a carry enters e from the nearest lower position where both have a
\* bit, through positions where at least one has
MAdd(S, T) ==
    LET carry(e) == \E j \in S \cap T :
                        j < e /\ \A k \in (j + 1)..(e - 1) : k \in S \cup T
    IN  {e \in Span(S, T) : ((e \in S) # (e \in T)) # carry(e)}

\* S - T for S >= T: a borrow enters e from the nearest lower position where
\* only T has a bit, through positions where S has no bit alone
MSub(S, T) ==
    LET borrow(e) == \E j \in T \ S :
                         j < e /\ \A k \in (j + 1)..(e - 1) : k \notin S \ T
    IN  {e \in Span(S, T) : ((e \in S) # (e \in T)) # borrow(e)}

MLess(S, T) == S # T /\ SetMax(Xor(S, T)) \in T

\* the sum of S * 2^t over the t in T with lo <= t <= hi, by halving
RECURSIVE MMulRange(_, _, _, _)
MMulRange(S, T, lo, hi) ==
    IF lo = hi THEN (IF lo \in T THEN Shift(S, lo) ELSE {})
    ELSE LET mid == (lo + hi) \div 2
         IN  MAdd(MMulRange(S, T, lo, mid), MMulRange(S, T, mid + 1, hi))

MMul(S, T) == IF S = {} \/ T = {} THEN {} ELSE MMulRange(S, T, SetMin(T), SetMax(T))

\* round a magnitude to MantBits significant bits, nearest, ties to even
RoundM(S) ==
    IF S = {} THEN {}
    ELSE LET lsb == SetMax(S) - (MantBits - 1)
             keepS == {e \in S : e >= lsb}
             half == (lsb - 1) \in S
             sticky == \E e \in S : e < lsb - 1
         IN  IF half /\ (sticky \/ lsb \in S) THEN MAdd(keepS, {lsb}) ELSE keepS

\* long division, n quotient bits from position e downwards; st is
\* [rem, acc]: the remainder left and the quotient bits found (a zero
\* remainder ends the division: all further bits are 0)
RECURSIVE DivBits(_, _, _, _)
DivBits(st, T, e, n) ==
    IF n = 0 \/ st.rem = {} THEN st
    ELSE LET Te == Shift(T, e)
             nx == IF MLess(st.rem, Te) THEN st
                   ELSE [rem |-> MSub(st.rem, Te), acc |-> st.acc \cup {e}]
         IN  DivBits(nx, T, e - 1, n - 1)

RECURSIVE DivLoop(_, _, _, _)
DivLoop(st, T, e, stop) ==
    IF e < stop \/ st.rem = {} THEN st
    ELSE LET n == IF e - stop + 1 < 8 THEN e - stop + 1 ELSE 8
             nx == DivBits(st, T, e, n)
         IN  DivLoop([rem |-> nx.rem, acc |-> nx.acc], T, e - n, stop)

\* the quotient S / T to MantBits + 2 bits, with a sticky bit below them
\* when the division is inexact
MDiv(S, T) ==
    IF S = {} THEN {}
    ELSE LET e0 == SetMax(S) - SetMax(T)
             stop == e0 - (MantBits + 1)
             st == DivLoop([rem |-> S, acc |-> {}], T, e0, stop)
         IN  IF st.rem = {} THEN st.acc ELSE st.acc \cup {stop - 2}

RECURSIVE NatBits(_, _)
NatBits(n, e) ==
    IF n = 0 THEN {}
    ELSE (IF n % 2 = 1 THEN {e} ELSE {}) \cup NatBits(n \div 2, e + 1)

\* the double of a Python int i >= 0
FNat(i) == [neg |-> FALSE, bits |-> NatBits(i, 0)]

\* the double hi * 2^(e + 26) + lo * 2^e, for writing literals
FLit(neg, hi, lo, e) == [neg |-> neg, bits |-> NatBits(hi, e + 26) \cup NatBits(lo, e)]

FNeg(a) == [neg |-> ~a.neg, bits |-> a.bits]

FAdd(a, b) ==
    IF a.neg = b.neg THEN [neg |-> a.neg, bits |-> RoundM(MAdd(a.bits, b.bits))]
    ELSE IF a.bits = b.bits THEN [neg |-> FALSE, bits |-> {}]
    ELSE IF MLess(a.bits, b.bits) THEN [neg |-> b.neg, bits |-> RoundM(MSub(b.bits, a.bits))]
    ELSE [neg |-> a.neg, bits |-> RoundM(MSub(a.bits, b.bits))]

FSub(a, b) == FAdd(a, FNeg(b))

FMul(a, b) == [neg |-> a.neg # b.neg, bits |-> RoundM(MMul(a.bits, b.bits))]

\* b is not zero
FDiv(a, b) == [neg |-> a.neg # b.neg, bits |-> RoundM(MDiv(a.bits, b.bits))]

\* Python's == on floats: -0.0 == 0.0
FEq(a, b) == a.bits = b.bits /\ (a.bits = {} \/ a.neg = b.neg)

FPointEq(p, q) == FEq(p[1], q[1]) /\ FEq(p[2], q[2])


(***************************************************************************)
(* Interpolator runs: interpolate(points, segments), then interpolate on   *)
(* the same control points with x and y exchanged.                         *)
(***************************************************************************)
InitInterp ==
    /\ pc = "ready"
    /\ NoGenerate
    /\ palette = FinancialColors
    /\ points \in SeqsUpTo(GridPoints, MaxCtl)
    /\ tolerance = Zero
    /\ segments \in 1..MaxSeg
    /\ NoFrame
    /\ out = <<>>
    /\ kept = <<>>
    /\ again = <<>>
    /\ raised = "none"

DoInterpolate ==
    /\ pc = "ready"
    /\ out' = Interpolate(points, segments)
    /\ pc' = "smooth"
    /\ UNCHANGED <<inputs, locals, raised, kept, again>>

DoInterpolateSwapped ==
    /\ pc = "smooth"
    /\ again' = Interpolate(SwapXY(points), segments)
    /\ pc' = "smoothSwapped"
    /\ UNCHANGED <<inputs, locals, raised, out, kept>>

NextInterp == DoInterpolate \/ DoInterpolateSwapped

SpecInterp == InitInterp /\ [][NextInterp]_vars

(***************************************************************************)
(* CatmullRomSpline.interpolate in binary64, operation by operation in     *)
(* Python's order of evaluation.                                           *)
(***************************************************************************)
FZero == FNat(0)

FHalf == [neg |-> FALSE, bits |-> {-1}]

\* points[0][c] + (points[1][c] - points[0][c]) * i / segments
LerpF(pts, segs, i) ==
    [c \in 1..2 |->
        FAdd(pts[1][c], FDiv(FMul(FSub(pts[2][c], pts[1][c]), FNat(i)), FNat(segs)))]

BlendF(a, b, c, d, e, t) ==
    LET t2 == FMul(t, t)
        t3 == FMul(FMul(t, t), t)
        k1 == FAdd(FNeg(a), c)
        k2 == FSub(FAdd(FSub(FMul(FNat(2), a), FMul(FNat(5), b)), FMul(FNat(4), c)), d)
        k3 == FAdd(FSub(FAdd(FNeg(a), FMul(FNat(3), e)), FMul(FNat(3), c)), d)
    IN  FMul(FHalf,
             FAdd(FAdd(FAdd(FMul(FNat(2), b), FMul(k1, t)), FMul(k2, t2)), FMul(k3, t3)))

SampleF(p0, p1, p2, p3, t) ==
    <<BlendF(p0[1], p1[1], p2[1], p3[1], p1[2], t),
      BlendF(p0[2], p1[2], p2[2], p3[2], p1[2], t)>>

SpanSamplesF(padded, i, segs) ==
    [j \in 1..segs |->
        SampleF(padded[i], padded[i + 1], padded[i + 2], padded[i + 3],
                FDiv(FNat(j - 1), FNat(segs)))]

RECURSIVE SpansF(_, _, _)
SpansF(padded, i, segs) ==
    IF i > Len(padded) - 3 THEN <<>>
    ELSE SpanSamplesF(padded, i, segs) \o SpansF(padded, i + 1, segs)

InterpolateF(pts, segs) ==
    IF Len(pts) < 2 THEN pts
    ELSE IF Len(pts) = 2 THEN [i \in 1..(segs + 1) |-> LerpF(pts, segs, i - 1)]
    ELSE SpansF(Padded(pts), 1, segs) \o <<pts[Len(pts)]>>

\* the doubles 0.0 and 0.1 (0x1.999999999999ap-4)
FloatVals == {FZero, FLit(FALSE, 107374182, 26843546, -56)}

FloatPoints == {<<x, y>> : x \in FloatVals, y \in FloatVals}

InitInterpF ==
    /\ pc = "ready"
    /\ NoGenerate
    /\ palette = FinancialColors
    /\ points \in SeqsUpTo(FloatPoints, MaxCtlF)
    /\ tolerance = Zero
    /\ segments \in 1..MaxSeg
    /\ NoFrame
    /\ out = <<>>
    /\ kept = <<>>
    /\ again = <<>>
    /\ raised = "none"

DoInterpolateF ==
    /\ pc = "ready"
    /\ out' = InterpolateF(points, segments)
    /\ pc' = "smooth"
    /\ UNCHANGED <<inputs, locals, raised, kept, again>>

NextInterpF == DoInterpolateF

SpecInterpF == InitInterpF /\ [][NextInterpF]_vars

(***************************************************************************)
(* Properties of the Interpolator                                          *)
(***************************************************************************)
Smooth == pc \in {"smooth", "smoothSwapped"}

\* C5: exchanging x and y in every control point exchanges x and y in
\* every output point (both channels use the same blend coefficients, each
\* on its own coordinates).
C5_ChannelSymmetry == pc = "smoothSwapped" => again = SwapXY(out)

C4_EndpointsExact ==
    (pc = "smooth" /\ Len(points) >= 2) =>
        /\ FPointEq(out[1], points[1])
        /\ FPointEq(out[Len(out)], points[Len(points)])

DefaultWidth == 100
DefaultHeight == 40
DefaultPadding == 5

RMin(a, b) == IF RLt(b, a) THEN b ELSE a

RMax(a, b) == IF RLt(a, b) THEN b ELSE a

\* min(vals)
MinOf(vals) ==
    CHOOSE v \in {vals[i] : i \in DOMAIN vals} : \A i \in DOMAIN vals : RLe(v, vals[i])

\* max(vals)
MaxOf(vals) ==
    CHOOSE v \in {vals[i] : i \in DOMAIN vals} : \A i \in DOMAIN vals : RLe(vals[i], v)

\* max(1, v_max - v_min)
RawRange(vals) == RMax(Int2Rat(1), RSub(MaxOf(vals), MinOf(vals)))

\* v_range * (padding/100)
Margin(r, pad) == RMul(r, RDiv(pad, Int2Rat(100)))

\* v_range = v_max - v_min after both were moved outwards
PaddedRange(vals, pad) ==
    RSub(RAdd(MaxOf(vals), Margin(RawRange(vals), pad)),
         RSub(MinOf(vals), Margin(RawRange(vals), pad)))

\* the y coordinate without the inversion "height -"
YCoordM(v, vmin, vrange, h) == RMul(RDiv(RSub(v, vmin), vrange), h)

\* height - ((p.value - v_min) / v_range * height)
YCoord(v, vmin, vrange, h) == RSub(h, RMul(RDiv(RSub(v, vmin), vrange), h))

\* the division by v_range of line 151 raises ZeroDivisionError
NormalizeRaises(d, pad) == d # <<>> /\ PaddedRange(d, pad) = Zero

\* v_min, v_range and x_step when line 151 is reached
\* the locals with an x_step of 0 whatever the number of points
LocalsM(d, w, pad) ==
    [v_min |-> RSub(MinOf(d), Margin(RawRange(d), pad)),
     v_range |-> PaddedRange(d, pad),
     x_step |-> Zero]

Locals(d, w, pad) ==
    [v_min |-> RSub(MinOf(d), Margin(RawRange(d), pad)),
     v_range |-> PaddedRange(d, pad),
     x_step |-> IF Len(d) > 1 THEN RDiv(w, Int2Rat(Len(d) - 1)) ELSE Zero]

\* the value normalize returns; it returns none when the division by
\* v_range raises
Normalize(d, w, h, pad) ==
    IF d = <<>> THEN <<>>
    ELSE LET l == Locals(d, w, pad)
         IN  IF l.v_range = Zero THEN <<>>
             ELSE [i \in 1..Len(d) |->
                      <<RScale(i - 1, l.x_step), YCoord(d[i], l.v_min, l.v_range, h)>>]

Values == {Int2Rat(v) : v \in -1..MaxVal}

Widths == {Int2Rat(DefaultWidth)}

Heights == {Int2Rat(1), Int2Rat(DefaultHeight)}

Paddings == {Zero, Int2Rat(DefaultPadding), Int2Rat(50)}

(***************************************************************************)
(* Sampler runs: normalize(data, width, height, padding)                   *)
(***************************************************************************)
InitNormalize ==
    /\ pc = "ready"
    /\ NoGenerate
    /\ palette = FinancialColors
    /\ data \in SeqsUpTo(Values, MaxData)
    /\ width \in Widths
    /\ height \in Heights
    /\ padding \in Paddings
    /\ points = <<>>
    /\ tolerance = Zero
    /\ segments = 0
    /\ baseline = 0
    /\ out = <<>>
    /\ kept = <<>>
    /\ again = <<>>
    /\ raised = "none"

DoNormalize ==
    /\ pc = "ready"
    /\ IF NormalizeRaises(data, padding)
       THEN raised' = "ZeroDivisionError" /\ out' = out
       ELSE raised' = "none" /\ out' = Normalize(data, width, height, padding)
    /\ pc' = "normalized"
    /\ UNCHANGED <<inputs, locals, kept, again>>

NextNormalize == DoNormalize

SpecNormalize == InitNormalize /\ [][NextNormalize]_vars

(***************************************************************************)
(* Properties of the Sampler                                               *)
(***************************************************************************)
Faulted == raised # "none"

\* C7: for non-empty data normalize returns as many points as there are
\* data points, and every y lies in [0, height].
C7_LengthAndRange ==
    (pc = "normalized" /\ data # <<>>) =>
        /\ ~Faulted
        /\ Len(out) = Len(data)
        /\ \A i \in DOMAIN out : RLe(Zero, out[i][2]) /\ RLe(out[i][2], height)

AllEqual(d) == \A i, j \in DOMAIN d : d[i] = d[j]

\* C8: when all values are equal, whatever the padding (0 included), the
\* divisor v_range is not zero and normalize returns a polyline.
C8_NoZeroDivision ==
    (pc = "normalized" /\ data # <<>> /\ AllEqual(data)) =>
        /\ PaddedRange(data, padding) # Zero
        /\ ~Faulted
        /\ Len(out) = Len(data)

\* C9: a strictly greater value gets a strictly smaller y, and with
\* padding > 0 the points of minimum and of maximum value get a y strictly
\* between 0 and height.
C9_InvertedAndInside ==
    (pc = "normalized" /\ data # <<>>) =>
        /\ \A i, j \in DOMAIN data :
              RLt(data[i], data[j]) => (~Faulted /\ RLt(out[j][2], out[i][2]))
        /\ RLt(Zero, padding) =>
              \A i \in DOMAIN data :
                  (data[i] = MinOf(data) \/ data[i] = MaxOf(data)) =>
                      (~Faulted /\ RLt(Zero, out[i][2]) /\ RLt(out[i][2], height))

C9_Witness ==
    /\ pc = "normalized"
    /\ Len(data) = 3
    /\ RLt(data[1], data[2])
    /\ RLt(data[2], data[3])
    /\ padding = Int2Rat(DefaultPadding)
    /\ RLt(out[3][2], out[2][2])
    /\ RLt(Zero, out[3][2])

(***************************************************************************)
(* SVGPathGenerator                                                        *)
(***************************************************************************)

\* the digits of n >= 0 with at least two places
TwoDigits(n) == IF n < 10 THEN "0" \o ToString(n) ELSE ToString(n)

\* f"{x:.2f}": the value rounded to 2 decimals, ties to even
Fmt2(x) ==
    LET whole == Abs(x.n) \div x.d
        frac == ((Abs(x.n) % x.d) * 100) \div x.d
        r == ((Abs(x.n) % x.d) * 100) % x.d
        q == whole * 100 + frac
        up == r > x.d - r \/ (r = x.d - r /\ q % 2 = 1)
        h == IF up THEN q + 1 ELSE q
    IN  (IF x.n < 0 THEN "-" ELSE "") \o ToString(h \div 100) \o "." \o TwoDigits(h % 100)

\* f"{x:.2f} {y:.2f}"
FmtPoint(p) == Fmt2(p[1]) \o " " \o Fmt2(p[2])

\* strs[lo] sep strs[lo + 1] sep ... sep strs[hi]
RECURSIVE JoinIn(_, _, _, _)
JoinIn(sep, strs, lo, hi) ==
    IF lo = hi THEN strs[lo]
    ELSE LET mid == (lo + hi) \div 2
         IN  JoinIn(sep, strs, lo, mid) \o sep \o JoinIn(sep, strs, mid + 1, hi)

\* sep.join(strs)
Join(sep, strs) == IF strs = <<>> THEN "" ELSE JoinIn(sep, strs, 1, Len(strs))

\* points_to_path over the points in reverse order
PointsToPathM(pts) ==
    "M " \o Join(" L ", [i \in DOMAIN pts |-> FmtPoint(pts[Len(pts) + 1 - i])])

PointsToPath(pts) ==
    "M " \o Join(" L ", [i \in DOMAIN pts |-> FmtPoint(pts[i])])

\* create_area_path coming down to the baseline at the first x
CreateAreaPathM(pts, base) ==
    IF pts = <<>> THEN ""
    ELSE "M " \o Fmt2(pts[1][1]) \o " " \o ToString(base)
         \o " L " \o FmtPoint(pts[1]) \o " "
         \o Join(" ", [i \in DOMAIN Tail(pts) |-> "L " \o FmtPoint(Tail(pts)[i])])
         \o " L " \o Fmt2(pts[1][1]) \o " " \o ToString(base) \o " Z"

CreateAreaPath(pts, base) ==
    IF pts = <<>> THEN ""
    ELSE "M " \o Fmt2(pts[1][1]) \o " " \o ToString(base)
         \o " L " \o FmtPoint(pts[1]) \o " "
         \o Join(" ", [i \in DOMAIN Tail(pts) |-> "L " \o FmtPoint(Tail(pts)[i])])
         \o " L " \o Fmt2(pts[Len(pts)][1]) \o " " \o ToString(base) \o " Z"

IsSquare(n) == \E k \in 0..n : k * k = n

Root(n) == CHOOSE k \in 0..n : k * k = n

\* l + math.sqrt(sq): a length is [rat, surds], the sum of the rational rat
\* and of the square roots of the radicands surds
AddRoot(l, sq) ==
    IF IsSquare(sq.n) /\ IsSquare(sq.d)
    THEN [rat |-> RAdd(l.rat, Rat(Root(sq.n), Root(sq.d))), surds |-> l.surds]
    ELSE [rat |-> l.rat, surds |-> Append(l.surds, sq)]

SegmentSq(a, b) ==
    RAdd(RMul(RSub(b[1], a[1]), RSub(b[1], a[1])),
         RMul(RSub(b[2], a[2]), RSub(b[2], a[2])))

RECURSIVE LengthFrom(_, _, _)
LengthFrom(pts, i, l) ==
    IF i > Len(pts) - 1 THEN l
    ELSE LengthFrom(pts, i + 1, AddRoot(l, SegmentSq(pts[i], pts[i + 1])))

\* l = 0
ZeroLength == [rat |-> Zero, surds |-> <<>>]

\* the loop started at the second point
CalculatePathLengthM(pts) == LengthFrom(pts, 2, ZeroLength)

CalculatePathLength(pts) == LengthFrom(pts, 1, ZeroLength)

\* the L-shaped path (0,0), (3,0), (3,4)
LShape ==
    <<<<Int2Rat(0), Int2Rat(0)>>, <<Int2Rat(3), Int2Rat(0)>>, <<Int2Rat(3), Int2Rat(4)>>>>

\* the path (0.125, 0.375), (0.125, 0.625), (-2.5, 0.625), whose
\* coordinates lie halfway between two 2-decimal numbers or below zero
Eighths ==
    <<<<Rat(1, 8), Rat(3, 8)>>, <<Rat(1, 8), Rat(5, 8)>>, <<Rat(-5, 2), Rat(5, 8)>>>>

Baselines == {0, DefaultHeight}

(***************************************************************************)
(* Encoder runs: one of the three functions on a polyline                  *)
(***************************************************************************)
InitEncode ==
    /\ pc = "ready"
    /\ NoGenerate
    /\ palette = FinancialColors
    /\ points \in SeqsUpTo(GridPoints, MaxCtl) \cup {LShape, Eighths}
    /\ baseline \in Baselines
    /\ tolerance = Zero
    /\ segments = 0
    /\ data = <<>>
    /\ width = Zero
    /\ height = Zero
    /\ padding = Zero
    /\ out = <<>>
    /\ kept = <<>>
    /\ again = <<>>
    /\ raised = "none"

DoPointsToPath ==
    /\ pc = "ready"
    /\ out' = PointsToPath(points)
    /\ pc' = "main_path"
    /\ UNCHANGED <<inputs, locals, raised, kept, again>>

DoCreateAreaPath ==
    /\ pc = "ready"
    /\ out' = CreateAreaPath(points, baseline)
    /\ pc' = "area_path"
    /\ UNCHANGED <<inputs, locals, raised, kept, again>>

DoCalculatePathLength ==
    /\ pc = "ready"
    /\ out' = CalculatePathLength(points)
    /\ pc' = "path_length"
    /\ UNCHANGED <<inputs, locals, raised, kept, again>>

NextEncode == DoPointsToPath \/ DoCreateAreaPath \/ DoCalculatePathLength

SpecEncode == InitEncode /\ [][NextEncode]_vars

(***************************************************************************)
(* Properties of the Encoder                                               *)
(***************************************************************************)
\* C10: for an empty polyline points_to_path returns the empty string,
\* create_area_path returns the empty string and calculate_path_length
\* returns 0.
C10_EmptyPolyline ==
    points = <<>> =>
        /\ pc = "main_path" => out = ""
        /\ pc = "area_path" => out = ""
        /\ pc = "path_length" => out = ZeroLength

\* the squared Euclidean distance of points i and i + 1 of the input
Dist2(i) ==
    LET dx == RSub(points[i + 1][1], points[i][1])
        dy == RSub(points[i + 1][2], points[i][2])
    IN  RAdd(RMul(dx, dx), RMul(dy, dy))

\* the rational r >= 0 with r * r = q, if there is one
HasRoot(q) == \E n \in 0..q.n, d \in 1..q.d : RMul(Rat(n, d), Rat(n, d)) = q

RootOf(q) ==
    CHOOSE r \in {Rat(n, d) : n \in 0..q.n, d \in 1..q.d} : RMul(r, r) = q

RECURSIVE SumOfRoots(_)
SumOfRoots(S) ==
    IF S = {} THEN Zero
    ELSE LET i == CHOOSE j \in S : TRUE
         IN  RAdd(RootOf(Dist2(i)), SumOfRoots(S \ {i}))

\* the sum of the Euclidean distances of the consecutive pairs of the input:
\* the distances that are rational added up, the others listed in order
SumOfDistances ==
    LET pairs == 1..(Len(points) - 1)
    IN  [rat |-> SumOfRoots({i \in pairs : HasRoot(Dist2(i))}),
         surds |-> SelectSeq([i \in pairs |-> Dist2(i)], LAMBDA q : ~HasRoot(q))]

\* C11: calculate_path_length returns the sum over the consecutive pairs of
\* points of their Euclidean distance, which is 0 for fewer than 2 points
\* and never negative, and 7 for the points (0,0), (3,0), (3,4).
C11_PathLength ==
    pc = "path_length" =>
        /\ out = SumOfDistances
        /\ Len(points) < 2 => out = ZeroLength
        /\ RLe(Zero, out.rat)
        /\ \A i \in DOMAIN out.surds : RLt(Zero, out.surds[i])
        /\ points = LShape => out = [rat |-> Int2Rat(7), surds |-> <<>>]

C11_Witness ==
    /\ pc = "path_length"
    /\ points = LShape
    /\ out.rat = Int2Rat(7)
    /\ out.surds = <<>>

\* the ratio with 0.0 in the place of 1.0 for a benchmark of 0
RatioM(v, b) == IF b # 0 THEN Rat(v, b) ELSE Zero

\* value / benchmark if benchmark != 0 else 1.0
Ratio(v, b) == IF b # 0 THEN Rat(v, b) ELSE Int2Rat(1)

\* contextual_color with "ratio > 0.95" for the neutral band
ContextualColorM(v, b) ==
    LET ratio == Ratio(v, b)
    IN  IF RLe(Rat(115, 100), ratio) THEN EMERALD_STRONG
        ELSE IF RLe(Rat(105, 100), ratio) THEN TEAL_MILD
        ELSE IF RLt(Rat(95, 100), ratio) THEN SLATE_NEUTRAL
        ELSE IF RLe(Rat(85, 100), ratio) THEN AMBER_CAUTION
        ELSE CRIMSON_WARNING

ContextualColor(v, b) ==
    LET ratio == Ratio(v, b)
    IN  IF RLe(Rat(115, 100), ratio) THEN EMERALD_STRONG
        ELSE IF RLe(Rat(105, 100), ratio) THEN TEAL_MILD
        ELSE IF RLe(Rat(95, 100), ratio) THEN SLATE_NEUTRAL
        ELSE IF RLe(Rat(85, 100), ratio) THEN AMBER_CAUTION
        ELSE CRIMSON_WARNING

Amounts == -MaxAmount..MaxAmount

Benchmarks == {-100, 0, 20, 100}

(***************************************************************************)
(* Color runs: contextual_color(value, benchmark)                          *)
(***************************************************************************)
InitColor ==
    /\ pc = "ready"
    /\ value \in Amounts
    /\ benchmark \in Benchmarks
    /\ points = <<>>
    /\ tolerance = Zero
    /\ segments = 0
    /\ NoFrame
    /\ color = ""
    /\ palette = FinancialColors
    /\ smooth = <<>>
    /\ calls = 0
    /\ stack = <<>>
    /\ out = <<>>
    /\ kept = <<>>
    /\ again = <<>>
    /\ raised = "none"

DoContextualColor ==
    /\ pc = "ready"
    /\ out' = ContextualColor(value, benchmark)
    /\ pc' = "colored"
    /\ UNCHANGED <<inputs, locals, raised, kept, again>>

NextColor == DoContextualColor

SpecColor == InitColor /\ [][NextColor]_vars

(***************************************************************************)
(* Properties of FinancialColors                                           *)
(***************************************************************************)
\* the lower bounds of the bands in descending order, and their bands
Thresholds == <<Rat(115, 100), Rat(105, 100), Rat(95, 100), Rat(85, 100)>>

Bands == <<EMERALD_STRONG, TEAL_MILD, SLATE_NEUTRAL, AMBER_CAUTION>>

\* the thresholds that value / benchmark is greater than or equal to
Reached == {k \in DOMAIN Thresholds : RLe(Thresholds[k], Rat(value, benchmark))}

\* C12: for a non-zero benchmark contextual_color returns the band of the
\* first threshold, in descending order, that value / benchmark is greater
\* than or equal to, and the strong-negative band if there is none; a ratio
\* equal to a threshold gets the band of that threshold.
C12_Bands ==
    (pc = "colored" /\ benchmark # 0) =>
        /\ Reached = {} => out = CRIMSON_WARNING
        /\ \A k \in Reached : (\A j \in Reached : k <= j) => out = Bands[k]
        /\ \A k \in DOMAIN Thresholds :
              Rat(value, benchmark) = Thresholds[k] => out = Bands[k]

C12_Witness ==
    /\ pc = "colored"
    /\ value = 19
    /\ benchmark = 20
    /\ out = SLATE_NEUTRAL

(***************************************************************************)
(* NetWorthViz.generate                                                    *)
(***************************************************************************)
SimplifyThreshold == 500
InterpSegments == 15
AreaBaseline == 40
DecimationTarget == 20

\* if len(points) > 500 with ">=" for ">"
NeedsSimplifyM(pts) == Len(pts) >= SimplifyThreshold

\* if len(points) > 500
NeedsSimplify(pts) == Len(pts) > SimplifyThreshold

\* the stride one more than len(smooth)//20
StrideM(sm) == (Len(sm) \div DecimationTarget) + 1

\* max(1, len(smooth)//20)
Stride(sm) ==
    IF Len(sm) \div DecimationTarget > 1 THEN Len(sm) \div DecimationTarget ELSE 1

\* smooth[::max(1, len(smooth)//20)]
Decimate(sm) ==
    [k \in 1..((Len(sm) + Stride(sm) - 1) \div Stride(sm)) |-> sm[(k - 1) * Stride(sm) + 1]]

\* calculate_path_length(pts) as a term: the sum of up to 7485 square roots
\* of rationals is kept as the polyline it is the length of, which
\* determines it
LengthOf(pts) == [length_of |-> pts]

\* the dictionary generate returns
Result(sm, c) ==
    [main_path |-> PointsToPath(sm),
     area_path |-> CreateAreaPath(sm, AreaBaseline),
     path_length |-> LengthOf(sm),
     color |-> c,
     points |-> Decimate(sm)]

\* n data points of value 0
Flat(n) == [i \in 1..n |-> Zero]

\* the data values 10, 10, 50, 10, 10
PeakSeries == <<Int2Rat(10), Int2Rat(10), Int2Rat(50), Int2Rat(10), Int2Rat(10)>>

Series ==
    SeqsUpTo(Values, MaxSeries)
        \cup {Flat(n) : n \in (MaxSeries + 1)..MaxFlat}
        \cup {PeakSeries, Flat(SimplifyThreshold), Flat(SimplifyThreshold + 1)}

Colors == {SLATE_NEUTRAL, EMERALD_STRONG}

(***************************************************************************)
(* Pipeline runs: generate(data, color), one stage at a time, and then a   *)
(* second call with the same arguments.  normalize is called with its      *)
(* default frame, simplify with 0.5, interpolate with 15, create_area_path *)
(* with 40.                                                                *)
(***************************************************************************)
InitGenerate ==
    /\ pc = "generate"
    /\ data \in Series
    /\ color \in Colors
    /\ palette = FinancialColors
    /\ width = Int2Rat(DefaultWidth)
    /\ height = Int2Rat(DefaultHeight)
    /\ padding = Int2Rat(DefaultPadding)
    /\ tolerance = Half
    /\ segments = InterpSegments
    /\ baseline = AreaBaseline
    /\ value = 0
    /\ benchmark = 0
    /\ points = <<>>
    /\ smooth = <<>>
    /\ calls = 1
    /\ stack = <<>>
    /\ out = <<>>
    /\ kept = <<>>
    /\ again = <<>>
    /\ raised = "none"

\* points = DataProcessor.normalize(data)
GenNormalize ==
    /\ pc = "generate"
    /\ IF NormalizeRaises(data, padding)
       THEN raised' = "ZeroDivisionError" /\ points' = points /\ pc' = "failed"
       ELSE raised' = "none"
            /\ points' = Normalize(data, width, height, padding)
            /\ pc' = "sampled"
    /\ UNCHANGED <<args, locals, out, kept, again>>

\* if len(points) > 500: points = PathSimplifier.simplify(points, 0.5)
GenSimplify ==
    /\ pc = "sampled"
    /\ NeedsSimplify(points)
    /\ points' = Simplify(points, tolerance)
    /\ pc' = "sparse"
    /\ UNCHANGED <<args, locals, out, kept, again, raised>>

\* the interpolation with the segment count growing from call to call
GenInterpolateM ==
    /\ pc = "sparse" \/ (pc = "sampled" /\ ~NeedsSimplify(points))
    /\ smooth' = Interpolate(points, segments + calls - 1)
    /\ pc' = "dense"
    /\ UNCHANGED <<inputs, calls, stack, out, kept, again, raised>>

\* smooth = CatmullRomSpline.interpolate(points, 15)
GenInterpolate ==
    /\ pc = "sparse" \/ (pc = "sampled" /\ ~NeedsSimplify(points))
    /\ smooth' = Interpolate(points, segments)
    /\ pc' = "dense"
    /\ UNCHANGED <<inputs, calls, stack, out, kept, again, raised>>

\* return {...}
GenReturn ==
    /\ pc = "dense"
    /\ out' = Result(smooth, color)
    /\ pc' = "returned"
    /\ UNCHANGED <<inputs, locals, kept, again, raised>>

\* the caller keeps the result and calls generate(data, color) once more
GenCallAgain ==
    /\ pc = "returned"
    /\ calls = 1
    /\ again' = out
    /\ calls' = 2
    /\ points' = <<>>
    /\ smooth' = <<>>
    /\ out' = <<>>
    /\ pc' = "generate"
    /\ UNCHANGED <<args, stack, kept, raised>>

NextGenerate ==
    GenNormalize \/ GenSimplify \/ GenInterpolate \/ GenReturn \/ GenCallAgain

SpecGenerate == InitGenerate /\ [][NextGenerate]_vars

(***************************************************************************)
(* Properties of NetWorthViz.generate                                      *)
(***************************************************************************)
\* a < b, by the sign of the difference
Below(a, b) == RSub(a, b).n < 0

\* the point of index k has the strictly smallest y of the polyline
PeakAt(pl, k) ==
    /\ k \in DOMAIN pl
    /\ \A i \in DOMAIN pl : i # k => Below(pl[k][2], pl[i][2])

\* every y of the polyline is strictly between 0 and h
Inside(pl, h) == \A i \in DOMAIN pl : Below(Zero, pl[i][2]) /\ Below(pl[i][2], h)

\* C13: for the data values 10, 10, 50, 10, 10 and the default frame, the
\* point of minimum y of the polyline generate draws (and of the points it
\* returns) is the one of data index 2, and every y of it is strictly
\* between 0 and height.
C13_PeakInside ==
    (pc = "returned" /\ data = PeakSeries) =>
        /\ PeakAt(smooth, 2 * segments + 1)
        /\ Inside(smooth, height)
        /\ PeakAt(out.points, ((2 * segments) \div Stride(smooth)) + 1)
        /\ Inside(out.points, height)

\* the part of C13 that is about the peak
C13_PeakOnly ==
    (pc = "returned" /\ data = PeakSeries) =>
        /\ PeakAt(smooth, 2 * segments + 1)
        /\ PeakAt(out.points, ((2 * segments) \div Stride(smooth)) + 1)

\* the overshoot of the spline past the frame
C13_Overshoot ==
    (pc = "returned" /\ data = PeakSeries) =>
        /\ smooth[3 * segments + 6][2] = Rat(12140, 297)
        /\ \E i \in DOMAIN out.points : Below(height, out.points[i][2])

(***************************************************************************)
(* PathSimplifier.simplify in binary64, for tolerance 0 and polylines of   *)
(* at most three points: the loop of simplify then makes one comparison,   *)
(* d > 0 for the point of index 1, and the recursive calls get two points. *)
(***************************************************************************)
FAbs(a) == [neg |-> FALSE, bits |-> a.bits]

\* num of _perp_dist
PerpNumF(p, p1, p2) ==
    FAbs(FSub(FAdd(FSub(FMul(FSub(p2[2], p1[2]), p[1]),
                        FMul(FSub(p2[1], p1[1]), p[2])),
                   FMul(p2[1], p1[2])),
              FMul(p2[2], p1[1])))

\* the argument of math.sqrt in _perp_dist
PerpDenSqF(p1, p2) ==
    LET dy == FSub(p2[2], p1[2])
        dx == FSub(p2[1], p1[1])
    IN  FAdd(FMul(dy, dy), FMul(dx, dx))

\* _perp_dist(p, p1, p2) > 0: den != 0 and num / den > 0
PerpDistPositiveF(p, p1, p2) ==
    PerpDenSqF(p1, p2).bits # {} /\ PerpNumF(p, p1, p2).bits # {}

\* simplify(pts, 0)
SimplifyF(pts) ==
    IF Len(pts) < 3 THEN pts
    ELSE IF PerpDistPositiveF(pts[2], pts[1], pts[3])
    THEN Front(SubSeq(pts, 1, 2)) \o SubSeq(pts, 2, 3)
    ELSE <<pts[1], pts[3]>>

\* the doubles 0.7 (0x1.6666666666666p-1) and 0.85 (0x1.b333333333333p-1)
F07 == FLit(FALSE, 93952409, 40265318, -53)
F085 == FLit(FALSE, 114085068, 53687091, -53)

\* the points (0.0, 0.5), (0.5, 0.75), (0.7, 0.85), (1.0, 1.0), (2.0, 1.5)
LinePoints ==
    {<<FZero, FHalf>>, <<FHalf, [neg |-> FALSE, bits |-> {-1, -2}]>>, <<F07, F085>>,
     <<FNat(1), FNat(1)>>, <<FNat(2), [neg |-> FALSE, bits |-> {0, -1}]>>}

InitSimplifyF ==
    /\ pc = "ready"
    /\ NoGenerate
    /\ palette = FinancialColors
    /\ points \in [1..3 -> LinePoints]
    /\ tolerance = Zero
    /\ segments = 0
    /\ NoFrame
    /\ out = <<>>
    /\ kept = <<>>
    /\ again = <<>>
    /\ raised = "none"

DoSimplifyF ==
    /\ pc = "ready"
    /\ out' = SimplifyF(points)
    /\ pc' = "simplified"
    /\ UNCHANGED <<inputs, locals, raised, kept, again>>

NextSimplifyF == DoSimplifyF

SpecSimplifyF == InitSimplifyF /\ [][NextSimplifyF]_vars

(***************************************************************************)
(* Collinear polylines                                                     *)
(***************************************************************************)
\* a + b and a * b of two doubles without rounding
XAdd(a, b) ==
    IF a.neg = b.neg THEN [neg |-> a.neg, bits |-> MAdd(a.bits, b.bits)]
    ELSE IF a.bits = b.bits THEN [neg |-> FALSE, bits |-> {}]
    ELSE IF MLess(a.bits, b.bits) THEN [neg |-> b.neg, bits |-> MSub(b.bits, a.bits)]
    ELSE [neg |-> a.neg, bits |-> MSub(a.bits, b.bits)]

XSub(a, b) == XAdd(a, FNeg(b))

XMul(a, b) == [neg |-> a.neg # b.neg, bits |-> MMul(a.bits, b.bits)]

\* the points a, b, c, as the real numbers the doubles are, lie on one line
OnOneLine(a, b, c) ==
    XSub(XMul(XSub(b[1], a[1]), XSub(c[2], a[2])),
         XMul(XSub(b[2], a[2]), XSub(c[1], a[1]))).bits = {}

\* C14: a polyline of at least 3 points that all lie on one straight line
\* is simplified with tolerance 0 to its first and its last point.
C14_CollinearCollapse ==
    (pc = "simplified" /\ Len(points) >= 3
        /\ \A i, j, k \in DOMAIN points : OnOneLine(points[i], points[j], points[k]))
    => out = <<points[1], points[Len(points)]>>

\* the claim of C14 over the rationals
C14_OverRationals ==
    (Simplified /\ tolerance = Zero /\ Len(points) >= 3
        /\ \A i, j, k \in DOMAIN points : Cross(points[i], points[j], points[k]) = Zero)
    => out = <<points[1], points[Len(points)]>>

(***************************************************************************)
(* Degenerate inputs                                                       *)
(***************************************************************************)
\* the stages after the Sampler, and generate as a whole, on at most one
\* point: simplify and interpolate return their input, generate does not
\* raise and its polylines have the length of the data
C15_Downstream ==
    /\ (pc \in {"simplified", "resimplified", "smooth"} /\ Len(points) <= 1) =>
            out = points
    /\ (pc \in {"sampled", "sparse", "dense", "returned", "failed"} /\ Len(data) <= 1) =>
            /\ ~Faulted
            /\ pc \notin {"sparse", "failed"}
            /\ Len(points) = Len(data)
            /\ pc \in {"dense", "returned"} => smooth = points

\* C15: for a data sequence of length 0 or 1 normalize returns a polyline
\* of that length, simplify and interpolate return it unchanged, and
\* generate completes without raising.
C15_Degenerate ==
    /\ (pc = "normalized" /\ Len(data) <= 1) => (~Faulted /\ Len(out) = Len(data))
    /\ C15_Downstream

(***************************************************************************)
(* Repeated runs: simplify called a second time with the same polyline and *)
(* tolerance, and generate called a second time with the same data and     *)
(* color.                                                                  *)
(***************************************************************************)
DoSimplifyRerun ==
    /\ pc = "simplified"
    /\ again' = Simplify(points, tolerance)
    /\ pc' = "rerun"
    /\ UNCHANGED <<inputs, locals, raised, out, kept>>

NextRepeat == DoSimplify \/ DoSimplifyRerun \/ NextGenerate

SpecRepeat == (InitSimplify \/ InitGenerate) /\ [][NextRepeat]_vars

MaxDataF == 12

\* min(vals), max(vals) of a non-empty list of ints
MinInt(d) == CHOOSE v \in {d[i] : i \in DOMAIN d} : \A i \in DOMAIN d : v <= d[i]

MaxInt(d) == CHOOSE v \in {d[i] : i \in DOMAIN d} : \A i \in DOMAIN d : v >= d[i]

\* v_range * (padding/100) with v_range = max(1, v_max - v_min)
MarginF(d, pad) ==
    LET raw == IF MaxInt(d) - MinInt(d) > 1 THEN MaxInt(d) - MinInt(d) ELSE 1
    IN  FMul(FNat(raw), FDiv(FNat(pad), FNat(100)))

\* v_min, v_range and x_step when the return statement is reached
LocalsF(d, w, pad) ==
    LET v_min == FSub(FNat(MinInt(d)), MarginF(d, pad))
        v_max == FAdd(FNat(MaxInt(d)), MarginF(d, pad))
    IN  [v_min |-> v_min,
         v_range |-> FSub(v_max, v_min),
         x_step |-> IF Len(d) > 1 THEN FDiv(FNat(w), FNat(Len(d) - 1)) ELSE FZero]

\* the division by v_range raises ZeroDivisionError
NormalizeRaisesF(d, w, pad) == d # <<>> /\ LocalsF(d, w, pad).v_range.bits = {}

NormalizeF(d, w, h, pad) ==
    IF d = <<>> THEN <<>>
    ELSE LET l == LocalsF(d, w, pad)
         IN  [i \in 1..Len(d) |->
                 <<FMul(FNat(i - 1), l.x_step),
                   FSub(FNat(h), FMul(FDiv(FSub(FNat(d[i]), l.v_min), l.v_range),
                                      FNat(h)))>>]

\* n data points of value 0, and the values 0, 1, ..., n - 1
FlatInts(n) == [i \in 1..n |-> 0]

RampInts(n) == [i \in 1..n |-> i - 1]

SeriesF == {FlatInts(n) : n \in 0..MaxDataF} \cup {RampInts(n) : n \in 0..MaxDataF}

WidthsF == {1, 7, DefaultHeight, DefaultWidth}

InitNormalizeF ==
    /\ pc = "ready"
    /\ NoGenerate
    /\ palette = FinancialColors
    /\ data \in SeriesF
    /\ width \in WidthsF
    /\ height = DefaultHeight
    /\ padding \in {0, DefaultPadding}
    /\ points = <<>>
    /\ tolerance = Zero
    /\ segments = 0
    /\ baseline = 0
    /\ out = <<>>
    /\ kept = <<>>
    /\ again = <<>>
    /\ raised = "none"

DoNormalizeF ==
    /\ pc = "ready"
    /\ IF NormalizeRaisesF(data, width, padding)
       THEN raised' = "ZeroDivisionError" /\ out' = out
       ELSE raised' = "none" /\ out' = NormalizeF(data, width, height, padding)
    /\ pc' = "normalized"
    /\ UNCHANGED <<inputs, locals, kept, again>>

NextNormalizeF == DoNormalizeF

SpecNormalizeF == InitNormalizeF /\ [][NextNormalizeF]_vars

\* C17: the x-coordinates are i * width / (n - 1) for n > 1 data points, so
\* the first x is 0 and the last x is width; for n = 1 the x of the single
\* point is 0.
C17_EvenSpacing ==
    (pc = "normalized" /\ ~Faulted /\ data # <<>>) =>
        /\ FEq(out[1][1], FZero)
        /\ Len(data) > 1 => FEq(out[Len(out)][1], FNat(width))

\* the x of C17 over the rationals
C17_OverRationals ==
    (pc = "normalized" /\ ~Faulted /\ data # <<>>) =>
        /\ out[1][1] = Zero
        /\ Len(data) > 1 => out[Len(out)][1] = width
        /\ Len(data) > 1 =>
              \A i \in DOMAIN out :
                  out[i][1] = RDiv(RScale(i - 1, width), Int2Rat(Len(data) - 1))

(***************************************************************************)
(* Properties of the path strings                                          *)
(***************************************************************************)
\* the positions of s where a token (a maximal run without a space) starts
Starts(s) ==
    {i \in 1..Len(s) : SubSeq(s, i, i) # " " /\ (i = 1 \/ SubSeq(s, i - 1, i - 1) = " ")}

\* the position where the token starting at i ends
EndOf(s, i) ==
    CHOOSE e \in i..Len(s) :
        /\ e = Len(s) \/ SubSeq(s, e + 1, e + 1) = " "
        /\ \A j \in i..e : SubSeq(s, j, j) # " "

\* the k-th smallest element of S
Kth(S, k) == CHOOSE x \in S : Cardinality({y \in S : y <= x}) = k

\* the tokens of s in order
Tokens(s) ==
    [k \in 1..Cardinality(Starts(s)) |->
        SubSeq(s, Kth(Starts(s), k), EndOf(s, Kth(Starts(s), k)))]

Digits == {ToString(d) : d \in 0..9}

AllDigits(s) == s # "" /\ \A i \in 1..Len(s) : SubSeq(s, i, i) \in Digits

\* the number a string of digits denotes
RECURSIVE NatOf(_)
NatOf(s) ==
    IF s = "" THEN 0
    ELSE 10 * NatOf(SubSeq(s, 1, Len(s) - 1))
         + (CHOOSE d \in 0..9 : ToString(d) = SubSeq(s, Len(s), Len(s)))

\* tok is a decimal numeral with exactly 2 decimals, an optional sign in
\* front, and denotes a number at most 0.005 from x
Shows(tok, x) ==
    LET body == IF SubSeq(tok, 1, 1) = "-" THEN SubSeq(tok, 2, Len(tok)) ELSE tok
        n == Len(body)
    IN  /\ n >= 4
        /\ SubSeq(body, n - 2, n - 2) = "."
        /\ AllDigits(SubSeq(body, 1, n - 3))
        /\ AllDigits(SubSeq(body, n - 1, n))
        /\ LET h == NatOf(SubSeq(body, 1, n - 3)) * 100 + NatOf(SubSeq(body, n - 1, n))
               v == IF body = tok THEN h ELSE -h
           IN  RLe(RAbs(RSub(RScale(100, x), Int2Rat(v))), Half)

\* how many tokens of t are c
Count(t, c) == Cardinality({k \in DOMAIN t : t[k] = c})

\* tokens k, k + 1, k + 2 of t are the command c to the point p
CommandAt(t, k, c, p) == t[k] = c /\ Shows(t[k + 1], p[1]) /\ Shows(t[k + 2], p[2])

\* C18: for a non-empty polyline create_area_path emits, in this order, a
\* move to (x of the first point, baseline), a line to the first point, a
\* line to each subsequent point in order, a line to (x of the last point,
\* baseline) and a close: 1 move, n + 1 lines and 1 close for n points.
C18_AreaCommands ==
    (pc = "area_path" /\ points # <<>>) =>
        LET t == Tokens(out)
            n == Len(points)
        IN  /\ Len(t) = 3 * (n + 2) + 1
            /\ t[1] = "M" /\ Shows(t[2], points[1][1]) /\ t[3] = ToString(baseline)
            /\ \A i \in 1..n : CommandAt(t, 3 * i + 1, "L", points[i])
            /\ t[3 * n + 4] = "L"
            /\ Shows(t[3 * n + 5], points[n][1])
            /\ t[3 * n + 6] = ToString(baseline)
            /\ t[3 * n + 7] = "Z"
            /\ Count(t, "M") = 1 /\ Count(t, "L") = n + 1 /\ Count(t, "Z") = 1

C18_Witness ==
    /\ pc = "area_path"
    /\ points = Eighths
    /\ baseline = DefaultHeight
    /\ out = "M 0.12 40 L 0.12 0.38 L 0.12 0.62 L -2.50 0.62 L -2.50 40 Z"

\* C19: for a non-empty polyline of n points points_to_path emits one move
\* to the first point and then n - 1 lines, one to each subsequent point in
\* order, every coordinate with 2 decimals.
C19_LineCommands ==
    (pc = "main_path" /\ points # <<>>) =>
        LET t == Tokens(out)
            n == Len(points)
        IN  /\ Len(t) = 3 * n
            /\ CommandAt(t, 1, "M", points[1])
            /\ \A i \in 2..n : CommandAt(t, 3 * i - 2, "L", points[i])
            /\ Count(t, "M") = 1 /\ Count(t, "L") = n - 1

C19_Witness ==
    /\ pc = "main_path"
    /\ points = Eighths
    /\ out = "M 0.12 0.38 L 0.12 0.62 L -2.50 0.62"

(***************************************************************************)
(* Order of the stages of generate                                         *)
(***************************************************************************)
\* C20: generate runs the Sampler, then the Simplifier, then the
\* Interpolator, then the Encoder; the Simplifier runs, with tolerance 0.5,
\* exactly when the Sampler returned more than 500 points, and the
\* Interpolator runs with 15 segments in every case, on the polyline that
\* results.
C20_StageOrder ==
    [][/\ pc = "generate" =>
              /\ pc' \in {"sampled", "failed"}
              /\ pc' = "sampled" => points' = Normalize(data, width, height, padding)
       /\ pc' = "sampled" => pc = "generate"
       /\ pc' = "sparse" <=> (pc = "sampled" /\ Len(points) > SimplifyThreshold)
       /\ pc' = "sparse" => points' = Simplify(points, Half)
       /\ pc' = "dense" <=>
              (pc = "sparse" \/ (pc = "sampled" /\ Len(points) <= SimplifyThreshold))
       /\ pc' = "dense" => (smooth' = Interpolate(points, InterpSegments) /\ points' = points)
       /\ pc' = "returned" <=> pc = "dense"
       /\ pc' = "returned" =>
              /\ out'.main_path = PointsToPath(smooth)
              /\ out'.area_path = CreateAreaPath(smooth, AreaBaseline)
              /\ out'.path_length = LengthOf(smooth)
      ]_vars

C20_Witness ==
    /\ pc = "dense"
    /\ Len(data) = SimplifyThreshold + 1
    /\ Len(points) = 2
    /\ Len(smooth) = InterpSegments + 1

\* with exactly 500 points the Interpolator gets all of them
C20_AtThreshold ==
    (pc = "dense" /\ Len(data) = SimplifyThreshold) =>
        (Len(points) = SimplifyThreshold
            /\ Len(smooth) = (SimplifyThreshold - 1) * InterpSegments + 1)

(***************************************************************************)
(* The points generate returns for hit-testing                             *)
(***************************************************************************)
\* C21: the 'points' generate returns are the elements of the dense
\* polyline (n points) at the indices 0, s, 2s, ... below n, with
\* s = max(1, floor(n / 20)): the first point is among them when n > 0,
\* and for n >= 20 there are at least 20 and at most 39 of them.
C21_Decimated ==
    pc = "returned" =>
        LET n == Len(smooth)
            s == IF n \div 20 >= 1 THEN n \div 20 ELSE 1
            p == out.points
        IN  /\ \A k \in DOMAIN p : (k - 1) * s < n /\ p[k] = smooth[(k - 1) * s + 1]
            /\ Len(p) * s >= n
            /\ n > 0 => (Len(p) >= 1 /\ p[1] = smooth[1])
            /\ n >= 20 => (Len(p) >= 20 /\ Len(p) <= 39)

C21_Witness ==
    /\ pc = "returned"
    /\ Len(smooth) = 8 * InterpSegments + 1
    /\ Len(out.points) = 21
    /\ out.points[21] = smooth[121]

(***************************************************************************)
(* The curve through the control points                                    *)
(***************************************************************************)
\* dense has (n - 1) * k + 1 points and its point of index i * k is the
\* control point of index i, for the n control points ctl
Through(ctl, k, dense) ==
    /\ Len(dense) = (Len(ctl) - 1) * k + 1
    /\ \A i \in 0..(Len(ctl) - 1) : dense[i * k + 1] = ctl[i + 1]

\* C22: for n >= 3 control points and k >= 1 segments interpolate returns
\* (n - 1) * k + 1 points, and the point of index i * k is the control
\* point of index i, for every i in 0 .. n - 1.
C22_ThroughControlPoints ==
    /\ (pc = "smooth" /\ Len(points) >= 3) => Through(points, segments, out)
    /\ (pc = "dense" /\ Len(points) >= 3) => Through(points, segments, smooth)

C22_Witness ==
    /\ pc = "smooth"
    /\ points = <<<<Int2Rat(0), Int2Rat(0)>>, <<Int2Rat(1), Int2Rat(2)>>,
                  <<Int2Rat(2), Int2Rat(0)>>>>
    /\ segments = 3
    /\ Len(out) = 7
    /\ out[4] = points[2]
    /\ out[5] # points[2]

(***************************************************************************)
(* The recursion of PathSimplifier.simplify, call by call.  stack holds    *)
(* the calls still to be run, the next one first; a call is the polyline   *)
(* it gets, whether its caller drops the last point of what it returns     *)
(* ([:-1]), and the length and split index (Python's, from 0) of the       *)
(* polyline of the call that made it (0 and 0 for the outermost call).     *)
(* out collects the points returned, in order.                             *)
(***************************************************************************)
\* if dmax >= tolerance
RecursesM(pl, tol) ==
    LET d == Farthest(pl).dmax
    IN  RLe(RMul(RMul(tol, tol), d.densq), RMul(d.num, d.num))

\* if dmax > tolerance
Recurses(pl, tol) == DistGtRat(Farthest(pl).dmax, tol)

StepPoints == {<<Int2Rat(x), Int2Rat(y)>> : x \in 0..MaxCoordS, y \in 0..1}

\* for every polyline pl a call can get, the record of pl, the index the
\* loop of simplify leaves in index (from 1) and the tolerances for which
\* the call recurses
SplitTable ==
    {[points |-> pl,
      index |-> IF Len(pl) < 3 THEN 1 ELSE Farthest(pl).index,
      recurses |-> IF Len(pl) < 3 THEN {}
                   ELSE {tol \in Tolerances : Recurses(pl, tol)}] :
        pl \in SeqsUpTo(StepPoints, MaxLenS)}

Split(pl) == CHOOSE r \in SplitTable : r.points = pl

\* what a call returns without recursing
Direct(pl) == IF Len(pl) < 3 THEN pl ELSE <<pl[1], pl[Len(pl)]>>

\* the calls simplify(points[:index+1], tolerance) and
\* simplify(points[index:], tolerance) made by the call c
SubCalls(c) ==
    LET pl == c.points
        index == Split(pl).index
    IN  <<[points |-> SubSeq(pl, 1, index), trim |-> TRUE,
           caller |-> Len(pl), index |-> index - 1],
          [points |-> SubSeq(pl, index, Len(pl)), trim |-> c.trim,
           caller |-> Len(pl), index |-> index - 1]>>

\* no call of simplify has been made
InitSimplifySteps ==
    /\ pc = "idle"
    /\ NoGenerate
    /\ palette = FinancialColors
    /\ points = <<>>
    /\ tolerance = Zero
    /\ segments = 0
    /\ NoFrame
    /\ out = <<>>
    /\ kept = <<>>
    /\ again = <<>>
    /\ raised = "none"

\* the outermost call simplify(pl, tol)
SimplifyEnter ==
    /\ pc = "idle"
    /\ \E pl \in SeqsUpTo(StepPoints, MaxLenS), tol \in Tolerances :
          /\ points' = pl
          /\ tolerance' = tol
          /\ stack' = <<[points |-> pl, trim |-> FALSE, caller |-> 0, index |-> 0]>>
    /\ pc' = "call"
    /\ UNCHANGED <<segments, data, width, height, padding, baseline, value, benchmark, palette,
                   color, smooth, calls, out, kept, again, raised>>

\* the call at the head of the stack splits its polyline and recurses
SimplifyRecurse ==
    /\ pc = "call"
    /\ tolerance \in Split(Head(stack).points).recurses
    /\ stack' = SubCalls(Head(stack)) \o Tail(stack)
    /\ UNCHANGED <<pc, inputs, smooth, calls, out, raised, kept, again>>

\* the call at the head of the stack returns its points
SimplifyReturn ==
    /\ pc = "call"
    /\ tolerance \notin Split(Head(stack).points).recurses
    /\ stack' = Tail(stack)
    /\ out' = out \o (IF Head(stack).trim THEN Front(Direct(Head(stack).points))
                       ELSE Direct(Head(stack).points))
    /\ pc' = IF Tail(stack) = <<>> THEN "done" ELSE "call"
    /\ UNCHANGED <<inputs, smooth, calls, raised, kept, again>>

NextSimplifySteps == SimplifyEnter \/ SimplifyRecurse \/ SimplifyReturn

SpecSimplifySteps == InitSimplifySteps /\ [][NextSimplifySteps]_vars

\* every call that is to be run is run
FairSimplifySteps == SpecSimplifySteps /\ WF_vars(SimplifyRecurse \/ SimplifyReturn)

(***************************************************************************)
(* Termination of the Simplifier                                           *)
(***************************************************************************)
\* every recursive call was made at a strictly interior split index and
\* got a polyline of at least 2 points, strictly shorter than its caller's
InteriorSplits ==
    \A k \in DOMAIN stack :
        stack[k].caller > 0 =>
            /\ 1 <= stack[k].index /\ stack[k].index <= stack[k].caller - 2
            /\ 2 <= Len(stack[k].points) /\ Len(stack[k].points) < stack[k].caller

\* C23: for every polyline and tolerance >= 0 simplify terminates: whenever
\* it recurses the split index is strictly interior, so that both recursive
\* calls get a polyline strictly shorter than the current one and of
\* length at least 2.
C23_Terminates == []InteriorSplits /\ (pc = "call" ~> pc = "done")

C23_Witness ==
    /\ pc = "call"
    /\ Len(points) = 4
    /\ Len(stack) = 3
    /\ stack[1].caller = 3
    /\ stack[3].caller = 4

\* the calls taken together return what simplify returns
C23_SameResult == pc = "done" => out = Simplify(points, tolerance)

(***************************************************************************)
(* Zero-length chords                                                      *)
(***************************************************************************)
\* C24: when the chord's endpoints are identical _perp_dist returns 0 for
\* every point, and simplify of a polyline of at least 3 points whose first
\* and last points coincide returns those two endpoints, whatever the
\* tolerance >= 0 and the interior points.
C24_DegenerateChord ==
    (Simplified /\ Len(points) >= 3 /\ SamePoint(points[1], points[Len(points)])) =>
        /\ \A i \in DOMAIN points :
              PerpDist(points[i], points[1], points[Len(points)]) = ZeroDist
        /\ out = <<points[1], points[Len(points)]>>

C24_Witness ==
    /\ pc = "simplified"
    /\ Len(points) = 4
    /\ SamePoint(points[1], points[4])
    /\ ~SamePoint(points[2], points[1])
    /\ ~SamePoint(points[3], points[2])
    /\ tolerance = Zero
    /\ Len(out) = 2


(***************************************************************************)
(* Any stage called on the same arguments: the module is loaded, a         *)
(* polyline, a series and a frame are at hand, and one of simplify,        *)
(* interpolate, normalize, the three encoders and contextual_color is      *)
(* called on them; or NetWorthViz.generate runs on a series.               *)
(***************************************************************************)
InitStages ==
    /\ pc = "ready"
    /\ NoGenerate
    /\ palette = FinancialColors
    /\ points \in SeqsUpTo(GridPoints, MaxCtl)
    /\ data \in {<<>>, Flat(2), PeakSeries}
    /\ tolerance = Half
    /\ segments = MaxSeg
    /\ width = Int2Rat(DefaultWidth)
    /\ height = Int2Rat(DefaultHeight)
    /\ padding = Int2Rat(DefaultPadding)
    /\ baseline = AreaBaseline
    /\ out = <<>>
    /\ kept = <<>>
    /\ again = <<>>
    /\ raised = "none"

NextStages ==
    \/ NextSimplify
    \/ NextInterp
    \/ NextNormalize
    \/ NextEncode
    \/ NextColor
    \/ NextGenerate

SpecStages == (InitStages \/ InitGenerate) /\ [][NextStages]_vars

\* the control points at which NetWorthViz.generate is running: there points
\* is its local variable, which it rebinds, and data is its argument
InGenerate == pc \in {"generate", "sampled", "sparse", "dense", "returned", "failed"}

\* C25: no step of any stage changes the sequence it was given (the polyline
\* of simplify, interpolate and the encoders, the series of normalize and
\* generate), any other argument, or the class attributes of FinancialColors
C25_InputsUnchanged ==
    [][/\ data' = data
       /\ ~InGenerate => points' = points
       /\ palette' = palette /\ palette = FinancialColors
       /\ args' = args]_vars

C25_Witness ==
    /\ pc = "simplified"
    /\ Len(points) = 3
    /\ Len(out) = 2
    /\ data = PeakSeries
    /\ palette = FinancialColors


(***************************************************************************)
(* main: the color of the chart is chosen from the first and the last      *)
(* value of the data, then NetWorthViz.generate is called with it.  The    *)
(* values of the series are whole numbers, held as fractions over 1.       *)
(***************************************************************************)
InitMain ==
    /\ pc = "main"
    /\ data \in SeqsUpTo(Values, MaxSeries) \cup {Flat(SimplifyThreshold + 1)}
    /\ color = ""
    /\ palette = FinancialColors
    /\ width = Int2Rat(DefaultWidth)
    /\ height = Int2Rat(DefaultHeight)
    /\ padding = Int2Rat(DefaultPadding)
    /\ tolerance = Half
    /\ segments = InterpSegments
    /\ baseline = AreaBaseline
    /\ value = 0
    /\ benchmark = 0
    /\ points = <<>>
    /\ smooth = <<>>
    /\ calls = 1
    /\ stack = <<>>
    /\ out = <<>>
    /\ kept = <<>>
    /\ again = <<>>
    /\ raised = "none"

\* color = contextual_color(data[-1].value, data[0].value) if len(data) > 1
\*         else SLATE_NEUTRAL: the test, and either the call or the constant
MainColor ==
    /\ pc = "main"
    /\ IF Len(data) > 1
       THEN /\ value' = data[Len(data)].n
            /\ benchmark' = data[1].n
            /\ color' = color
            /\ pc' = "ready"
       ELSE /\ color' = palette.SLATE_NEUTRAL
            /\ pc' = "generate"
            /\ UNCHANGED <<value, benchmark>>
    /\ UNCHANGED <<points, tolerance, segments, data, width, height, padding,
                   baseline, palette, locals, out, kept, again, raised>>

\* the call returns into main and its result is bound to color
MainBind ==
    /\ pc = "colored"
    /\ Len(data) > 1
    /\ color' = out
    /\ out' = <<>>
    /\ pc' = "generate"
    /\ UNCHANGED <<points, tolerance, segments, data, width, height, padding,
                   baseline, value, benchmark, palette, locals, kept, again, raised>>

NextMain ==
    \/ MainColor
    \/ MainBind
    \/ NextColor
    \/ NextGenerate

SpecMain == (InitColor \/ InitMain) /\ [][NextMain]_vars

ColorBands ==
    {palette.EMERALD_STRONG, palette.TEAL_MILD, palette.SLATE_NEUTRAL,
     palette.AMBER_CAUTION, palette.CRIMSON_WARNING}

\* every call of contextual_color returns one of the five colors, and the
\* neutral one when the benchmark is 0
ColorTotal ==
    pc = "colored" =>
        /\ raised = "none"
        /\ out \in ColorBands
        /\ benchmark = 0 => out = SLATE_NEUTRAL

\* main calls contextual_color with the last value and the first one as
\* benchmark when there are two data points or more, and goes on to generate
\* with the neutral color, without the call, when there are fewer
MainGuard ==
    pc = "main" =>
        IF Len(data) < 2
        THEN pc' = "generate" /\ color' = SLATE_NEUTRAL
             /\ value' = value /\ benchmark' = benchmark /\ out' = out
        ELSE pc' = "ready" /\ value' = data[Len(data)].n /\ benchmark' = data[1].n

\* C26: contextual_color never divides by zero: it returns a color for every
\* value and benchmark, the neutral one for a benchmark of 0; main calls it
\* with (last value, first value) for 2 data points or more and assigns the
\* neutral color without calling it for fewer
C26_NoZeroDivision == []ColorTotal /\ [][MainGuard]_vars

\* main has called contextual_color on a series that starts at 0 and ends
\* elsewhere, and the neutral color came back
C26_Witness ==
    /\ pc = "colored"
    /\ Len(data) = 3
    /\ benchmark = 0
    /\ value = 2
    /\ out = SLATE_NEUTRAL

\* main on a single data point: the neutral color, and no call was made
C26_WitnessShort ==
    /\ pc = "generate"
    /\ Len(data) = 1
    /\ color = SLATE_NEUTRAL
    /\ value = 0 /\ benchmark = 0


(***************************************************************************)
(* The chords of the pipeline.  simplify measures the points of a          *)
(* polyline against the chord from its first to its last point, and calls  *)
(* itself on points[:index + 1] and points[index:], so every polyline it   *)
(* is called on inside NetWorthViz.generate is a run of consecutive points *)
(* of the polyline normalize returned.                                     *)
(***************************************************************************)
\* the x coordinates grow strictly with the index
XIncreasing(pl) == \A i \in 1..(Len(pl) - 1) : Below(pl[i][1], pl[i + 1][1])

\* no run of 3 consecutive points or more starts and ends at the same point,
\* so that den of _perp_dist is never 0 and its "else 0" is never taken
ChordsDistinct(pl) ==
    \A i \in 1..Len(pl) : \A j \in (i + 2)..Len(pl) : ~SamePoint(pl[i], pl[j])

\* C27: for more than one data point (the width of generate is 100) the x
\* coordinates normalize returns are strictly increasing, hence every chord
\* the Simplifier can measure in generate has two distinct end points and
\* the zero-length fallback of _perp_dist is not taken
C27_DistinctChords ==
    (pc = "sampled" /\ Len(data) > 1) =>
        /\ Below(Zero, width)
        /\ XIncreasing(points)
        /\ ChordsDistinct(points)
        /\ NeedsSimplify(points) =>
               /\ SqLen(points[1], points[Len(points)]) # Zero
               /\ PerpDist(points[2], points[1], points[Len(points)]).densq
                      = SqLen(points[1], points[Len(points)])

\* normalize has returned the 501 points that generate hands to simplify
C27_Witness ==
    /\ pc = "sampled"
    /\ Len(data) = SimplifyThreshold + 1
    /\ NeedsSimplify(points)
    /\ points[1][1] = Zero
    /\ points[Len(points)][1] = width
    /\ points[1][2] = points[Len(points)][2]

====
